---- MODULE Spec2Model ----
(***************************************************************************)
(* A model of tf-rddlsim's front end (src/tfrddlsim/parser.py): the PLY    *)
(* lexer RDDLlex and the PLY LALR parser RDDLParser, and of the Simulator  *)
(* the tests in src/tests/test_simulator.py exercise.                      *)
(*                                                                         *)
(* Texts are sequences of one-character strings; lexpos is 0-based as in   *)
(* PLY, so the character at lexpos is lexdata[lexpos + 1].                 *)
(***************************************************************************)
EXTENDS Integers, Sequences, FiniteSets, TLC

VARIABLES
    lexdata,        \* RDDLlex._lexer.lexdata: the text being lexed
    lexpos,         \* RDDLlex._lexer.lexpos
    lineno,         \* RDDLlex._lexer.lineno
    out,            \* what t_error / p_error printed for the current input
    yielded,        \* the tokens RDDLlex.__call__ has yielded for the current input
    lpc,            \* where the RDDLlex.__call__ generator stands
    src,            \* the syntax the text given to parse() was written from
    ppc,            \* where RDDLParser.parse stands
    lookahead,      \* yacc: the lookahead token
    lookaheadstack, \* yacc: the pushback stack
    statestack,     \* yacc: the LR state stack
    symstack,       \* yacc: the symbol stack (type and value)
    errorcount,     \* yacc: shifts left before p_error is called again
    result,         \* what parse() returned
    sim             \* the Simulator's unrolling of one trajectory

lexvars == <<lexdata, lexpos, lineno, out, yielded, lpc>>
parsevars == <<src, ppc, lookahead, lookaheadstack, statestack, symstack, errorcount, result>>
vars == <<lexdata, lexpos, lineno, out, yielded, lpc,
          src, ppc, lookahead, lookaheadstack, statestack, symstack, errorcount, result,
          sim>>

(***************************************************************************)
(* Bounds of the model.                                                    *)
(***************************************************************************)
\* longest text given to the lexer alone
MaxLen == 4
\* input() is called again only while the line counter is at most this
MaxLine == 2

(***************************************************************************)
(* Python values.                                                          *)
(***************************************************************************)
None == [k |-> "None"]
PyStr(s) == [k |-> "str", s |-> s]
PyInt(i) == [k |-> "int", i |-> i]
PyFloat(num, exp) == [k |-> "float", num |-> num, exp |-> exp]
PyBool(b) == [k |-> "bool", b |-> b]
PyList(items) == [k |-> "list", items |-> items]
PyDict(map) == [k |-> "dict", map |-> map]
PyTuple(fst, snd) == [k |-> "tuple", fst |-> fst, snd |-> snd]

RECURSIVE Concat(_)
Concat(cs) == IF cs = <<>> THEN "" ELSE Head(cs) \o Concat(Tail(cs))

(***************************************************************************)
(* The lexer's patterns.                                                   *)
(***************************************************************************)
alpha == {"a", "b", "c", "d", "e", "f", "g", "h", "i", "j", "k", "l", "m",
          "n", "o", "p", "q", "r", "s", "t", "u", "v", "w", "x", "y", "z",
          "A", "B", "C", "D", "E", "F", "G", "H", "I", "J", "K", "L", "M",
          "N", "O", "P", "Q", "R", "S", "T", "U", "V", "W", "X", "Y", "Z"}
digit == {"0", "1", "2", "3", "4", "5", "6", "7", "8", "9"}
alnum == alpha \cup digit
identchar == alnum \cup {"-", "_"}
\* the characters other than letters and digits that the model's texts use
Punct == {"^", "|", "~", "+", "*", "(", ")", "{", "}", ".", ",", "_", "[", "]",
          "=", "<", ">", "/", "-", ":", ";", "$", "?", "&", "@", "'",
          " ", "\t", "\n", "\r", "#", "!", "%"}
Charset == alnum \cup Punct
noteol == Charset \ {"\r", "\n"}

\* CharAt(data, i): lexdata[i] of Python, "" past the end
CharAt(data, i) == IF i < Len(data) THEN data[i + 1] ELSE ""

\* the length of the longest run of characters of S that starts at i
RECURSIVE Run(_, _, _)
Run(data, i, S) == IF CharAt(data, i) \in S THEN 1 + Run(data, i + 1, S) ELSE 0

\* (alpha|digit|-|_)*(alpha|digit): the longest run of at most n characters
\* from i that ends in a letter or a digit (0: there is none)
RECURSIVE Trim(_, _, _)
Trim(data, i, n) ==
    IF n = 0 THEN 0
    ELSE IF CharAt(data, i + n - 1) \in alnum THEN n
    ELSE Trim(data, i, n - 1)

\* idenfifier: (alpha)((alpha|digit|-|_)*(alpha|digit))?(')?
idenfifier(data, i) ==
    IF CharAt(data, i) \in alpha
    THEN LET n == Trim(data, i + 1, Run(data, i + 1, identchar))
         IN  1 + n + (IF CharAt(data, i + 1 + n) = "'" THEN 1 ELSE 0)
    ELSE 0

\* integer: digit+
integer(data, i) == Run(data, i, digit)

\* double: digit*\.digit+
double(data, i) ==
    LET d == Run(data, i, digit)
        f == Run(data, i + d + 1, digit)
    IN  IF CharAt(data, i + d) = "." /\ f > 0 THEN d + 1 + f ELSE 0

\* variable: \?(alpha|digit|-|_)*(alpha|digit)
variable(data, i) ==
    LET n == Trim(data, i + 1, Run(data, i + 1, identchar))
    IN  IF CharAt(data, i) = "?" /\ n > 0 THEN 1 + n ELSE 0

\* enum_value: \@(alpha|digit|-|_)*(alpha|digit)
enum_value(data, i) ==
    LET n == Trim(data, i + 1, Run(data, i + 1, identchar))
    IN  IF CharAt(data, i) = "@" /\ n > 0 THEN 1 + n ELSE 0

\* t_newline's pattern: \n+
newline(data, i) == Run(data, i, {"\n"})

\* t_COMMENT's pattern: //[^\r\n]*
comment(data, i) ==
    IF CharAt(data, i) = "/" /\ CharAt(data, i + 1) = "/"
    THEN 2 + Run(data, i + 2, noteol)
    ELSE 0

t_ignore == {" ", "\t"}

reserved ==
    ("domain" :> "DOMAIN") @@ ("instance" :> "INSTANCE") @@ ("horizon" :> "HORIZON") @@
    ("discount" :> "DISCOUNT") @@ ("objects" :> "OBJECTS") @@ ("init-state" :> "INIT_STATE") @@
    ("requirements" :> "REQUIREMENTS") @@
    ("state-action-constraints" :> "STATE_ACTION_CONSTRAINTS") @@
    ("action-preconditions" :> "ACTION_PRECONDITIONS") @@
    ("state-invariants" :> "STATE_INVARIANTS") @@ ("types" :> "TYPES") @@
    ("object" :> "OBJECT") @@ ("bool" :> "BOOL") @@ ("int" :> "INT") @@ ("real" :> "REAL") @@
    ("neg-inf" :> "NEG_INF") @@ ("pos-inf" :> "POS_INF") @@ ("pvariables" :> "PVARIABLES") @@
    ("non-fluent" :> "NON_FLUENT") @@ ("non-fluents" :> "NON_FLUENTS") @@
    ("state-fluent" :> "STATE") @@ ("interm-fluent" :> "INTERMEDIATE") @@
    ("derived-fluent" :> "DERIVED_FLUENT") @@ ("observ-fluent" :> "OBSERVATION") @@
    ("action-fluent" :> "ACTION") @@ ("level" :> "LEVEL") @@ ("default" :> "DEFAULT") @@
    ("max-nondef-actions" :> "MAX_NONDEF_ACTIONS") @@ ("terminate-when" :> "TERMINATE_WHEN") @@
    ("terminal" :> "TERMINAL") @@ ("cpfs" :> "CPFS") @@ ("cdfs" :> "CDFS") @@
    ("reward" :> "REWARD") @@ ("forall" :> "FORALL") @@ ("exists" :> "EXISTS") @@
    ("true" :> "TRUE") @@ ("false" :> "FALSE") @@ ("if" :> "IF") @@ ("then" :> "THEN") @@
    ("else" :> "ELSE") @@ ("switch" :> "SWITCH") @@ ("case" :> "CASE") @@
    ("otherwise" :> "OTHERWISE") @@ ("KronDelta" :> "KRON_DELTA") @@
    ("DiracDelta" :> "DIRAC_DELTA") @@ ("Uniform" :> "UNIFORM") @@
    ("Bernoulli" :> "BERNOULLI") @@ ("Discrete" :> "DISCRETE") @@ ("Normal" :> "NORMAL") @@
    ("Poisson" :> "POISSON") @@ ("Exponential" :> "EXPONENTIAL") @@
    ("Weibull" :> "WEIBULL") @@ ("Gamma" :> "GAMMA") @@ ("Multinomial" :> "MULTINOMIAL") @@
    ("Dirichlet" :> "DIRICHLET")

\* the rules given as strings, in the order PLY tries them: by decreasing
\* length of the pattern, and by name among patterns of one length
strsym == <<
    [type |-> "EQUIV", lit |-> <<"<", "=", ">">>],
    [type |-> "AMPERSAND", lit |-> <<"&">>],
    [type |-> "AND", lit |-> <<"^">>],
    [type |-> "COMMA", lit |-> <<",">>],
    [type |-> "COMP_EQUAL", lit |-> <<"=", "=">>],
    [type |-> "DOLLAR_SIGN", lit |-> <<"$">>],
    [type |-> "DOT", lit |-> <<".">>],
    [type |-> "GREATEREQ", lit |-> <<">", "=">>],
    [type |-> "IMPLY", lit |-> <<"=", ">">>],
    [type |-> "LBRACK", lit |-> <<"[">>],
    [type |-> "LCURLY", lit |-> <<"{">>],
    [type |-> "LESSEQ", lit |-> <<"<", "=">>],
    [type |-> "LPAREN", lit |-> <<"(">>],
    [type |-> "NEQ", lit |-> <<"~", "=">>],
    [type |-> "OR", lit |-> <<"|">>],
    [type |-> "PLUS", lit |-> <<"+">>],
    [type |-> "QUESTION", lit |-> <<"?">>],
    [type |-> "RBRACK", lit |-> <<"]">>],
    [type |-> "RCURLY", lit |-> <<"}">>],
    [type |-> "RPAREN", lit |-> <<")">>],
    [type |-> "TIMES", lit |-> <<"*">>],
    [type |-> "UNDERSCORE", lit |-> <<"_">>],
    [type |-> "ASSIGN_EQUAL", lit |-> <<"=">>],
    [type |-> "COLON", lit |-> <<":">>],
    [type |-> "DIV", lit |-> <<"/">>],
    [type |-> "GREATER", lit |-> <<">">>],
    [type |-> "LESS", lit |-> <<"<">>],
    [type |-> "MINUS", lit |-> <<"-">>],
    [type |-> "NOT", lit |-> <<"~">>],
    [type |-> "SEMI", lit |-> <<";">>] >>

\* the rules given as functions, in the order of their definition
funcsym == <<"t_newline", "t_COMMENT", "t_IDENT", "t_VAR", "t_ENUM_VAL", "t_DOUBLE", "t_INTEGER">>

FuncLen(rule, data, i) ==
    CASE rule = "t_newline" -> newline(data, i)
      [] rule = "t_COMMENT" -> comment(data, i)
      [] rule = "t_IDENT" -> idenfifier(data, i)
      [] rule = "t_VAR" -> variable(data, i)
      [] rule = "t_ENUM_VAL" -> enum_value(data, i)
      [] rule = "t_DOUBLE" -> double(data, i)
      [] rule = "t_INTEGER" -> integer(data, i)

StrLen(n, data, i) ==
    LET lit == strsym[n].lit
    IN  IF \A j \in 1..Len(lit) : CharAt(data, i + j - 1) = lit[j] THEN Len(lit) ELSE 0

\* the master pattern: the first rule that matches at i, and how much
Match(data, i) ==
    LET fs == {n \in 1..Len(funcsym) : FuncLen(funcsym[n], data, i) > 0}
        ss == {n \in 1..Len(strsym) : StrLen(n, data, i) > 0}
    IN  IF fs # {}
        THEN LET n == CHOOSE n \in fs : \A m \in fs : n <= m
             IN  [rule |-> funcsym[n], type |-> "", len |-> FuncLen(funcsym[n], data, i)]
        ELSE IF ss # {}
        THEN LET n == CHOOSE n \in ss : \A m \in ss : n <= m
             IN  [rule |-> "str", type |-> strsym[n].type, len |-> StrLen(n, data, i)]
        ELSE [rule |-> "none", type |-> "", len |-> 0]

(***************************************************************************)
(* The token rules' functions.                                             *)
(***************************************************************************)
DigitVal == ("0" :> 0) @@ ("1" :> 1) @@ ("2" :> 2) @@ ("3" :> 3) @@ ("4" :> 4) @@
            ("5" :> 5) @@ ("6" :> 6) @@ ("7" :> 7) @@ ("8" :> 8) @@ ("9" :> 9)

\* the number the first n digits of cs denote
RECURSIVE DigitsValue(_, _)
DigitsValue(cs, n) == IF n = 0 THEN 0 ELSE DigitsValue(cs, n - 1) * 10 + DigitVal[cs[n]]

\* int(t.value)
PyIntOf(cs) == DigitsValue(cs, Len(cs))

\* a decimal num / 10^exp without trailing zeros in its fraction
RECURSIVE Normal(_, _)
Normal(num, exp) ==
    IF exp > 0 /\ num % 10 = 0 THEN Normal(num \div 10, exp - 1) ELSE PyFloat(num, exp)

\* float(t.value), of a text digit*\.digit+
PyFloatOf(cs) ==
    LET d == Run(cs, 0, digit)
        whole == SubSeq(cs, 1, d)
        frac == SubSeq(cs, d + 2, Len(cs))
    IN  Normal(PyIntOf(whole \o frac), Len(frac))

Tok(type, value, line, pos) == [type |-> type, value |-> value, lineno |-> line, lexpos |-> pos]
NoToken == Tok("None", None, 0, 0)

ReservedGet(value) == IF value \in DOMAIN reserved THEN reserved[value] ELSE "IDENT"

\* t_IDENT: a reserved word's type when the text is one, else IDENT
t_IDENT(t) == [t EXCEPT !.type = ReservedGet(t.value.s)]
t_VAR(t) == t
t_ENUM_VAL(t) == t
\* t_DOUBLE, t_INTEGER: the value becomes the number the text (cs) denotes
t_DOUBLE(t, cs) == [t EXCEPT !.value = PyFloatOf(cs)]
t_INTEGER(t, cs) == [t EXCEPT !.value = PyInt(PyIntOf(cs))]
\* t_newline: the line counter after \n+ matched cs
t_newline(line, cs) == line + Len(cs)

\* t_error, at an illegal character at pos: what it prints (with the place, which
\* the formulas below read) and the lexpos it leaves after skip(1)
t_error_buggy_skip(data, pos, line) ==
    [print |-> [msg |-> "Illegal character", ch |-> CharAt(data, pos), line |-> line, at |-> pos],
     lexpos |-> pos + 2]
t_error(data, pos, line) ==
    [print |-> [msg |-> "Illegal character", ch |-> CharAt(data, pos), line |-> line, at |-> pos],
     lexpos |-> pos + 1]

\* Lexer.token(): the next token of data from pos, or NoToken (None) at its end;
\* with the lexpos and lineno it leaves and the lines printed on the way.
\* (Here and below, CHOOSE or \E over a one-element set {e} names the value of
\* e, which TLC then evaluates once.)
RECURSIVE token(_, _, _, _)
token(data, pos, line, log) ==
    IF pos >= Len(data)
    THEN [tok |-> NoToken, lexpos |-> pos + 1, lineno |-> line, out |-> log]
    ELSE IF CharAt(data, pos) \in t_ignore
    THEN token(data, pos + 1, line, log)
    ELSE CHOOSE r \in
           {LET cs == SubSeq(data, pos + 1, pos + m.len)
                t == Tok(m.type, PyStr(Concat(cs)), line, pos)
                end == pos + m.len
                ret(tk) == [tok |-> tk, lexpos |-> end, lineno |-> line, out |-> log]
            IN  CASE m.rule = "none" ->
                       CHOOSE q \in {token(data, e.lexpos, line, Append(log, e.print)) :
                                        e \in {t_error(data, pos, line)}} : TRUE
                  [] m.rule = "t_newline" -> token(data, end, t_newline(line, cs), log)
                  [] m.rule = "t_COMMENT" -> token(data, end, line, log)
                  [] m.rule = "t_IDENT" -> ret(t_IDENT(t))
                  [] m.rule = "t_VAR" -> ret(t_VAR([t EXCEPT !.type = "VAR"]))
                  [] m.rule = "t_ENUM_VAL" -> ret(t_ENUM_VAL([t EXCEPT !.type = "ENUM_VAL"]))
                  [] m.rule = "t_DOUBLE" -> ret(t_DOUBLE([t EXCEPT !.type = "DOUBLE"], cs))
                  [] m.rule = "t_INTEGER" -> ret(t_INTEGER([t EXCEPT !.type = "INTEGER"], cs))
                  [] m.rule = "str" -> ret(t)
            : m \in {Match(data, pos)}} : TRUE

(***************************************************************************)
(* The lexer on its own: input(data), then the generator __call__.         *)
(***************************************************************************)
\* the characters of the texts given to the lexer alone: a letter, a newline,
\* the comment's slash and a character no pattern starts with
LexAlphabet == {"a", "\n", "/", "#"}

RECURSIVE Texts(_)
Texts(n) ==
    IF n = 0 THEN {<<>>}
    ELSE LET shorter == Texts(n - 1)
         IN  shorter \cup {Append(t, c) : t \in {u \in shorter : Len(u) = n - 1}, c \in LexAlphabet}

LexTexts == Texts(MaxLen)

LexIdle ==
    /\ lexdata = <<>>
    /\ lexpos = 0
    /\ lineno = 1
    /\ out = <<>>
    /\ yielded = <<>>
    /\ lpc = "idle"

ParseIdle ==
    /\ src = <<>>
    /\ ppc = "idle"
    /\ lookahead = NoToken
    /\ lookaheadstack = <<>>
    /\ statestack = <<>>
    /\ symstack = <<>>
    /\ errorcount = 0
    /\ result = None

SimIdle == sim = [pc |-> "idle"]

\* RDDLlex.input(data)
LexInput ==
    /\ lpc \in {"idle", "done"}
    /\ lineno <= MaxLine
    /\ \E data \in LexTexts :
         /\ lexdata' = data
         /\ lexpos' = 0
    /\ out' = <<>>
    /\ yielded' = <<>>
    /\ lpc' = "running"
    /\ UNCHANGED <<lineno, sim>>
    /\ UNCHANGED parsevars

\* RDDLlex.__call__: one turn of its loop
LexCall ==
    /\ lpc = "running"
    /\ \E r \in {token(lexdata, lexpos, lineno, out)} :
           /\ lexpos' = r.lexpos
           /\ lineno' = r.lineno
           /\ out' = r.out
           /\ IF r.tok = NoToken
              THEN lpc' = "done" /\ UNCHANGED yielded
              ELSE lpc' = "running" /\ yielded' = Append(yielded, r.tok)
    /\ UNCHANGED <<lexdata, sim>>
    /\ UNCHANGED parsevars

LexInit == LexIdle /\ ParseIdle /\ SimIdle
LexNext == LexInput \/ LexCall
SpecLex == LexInit /\ [][LexNext]_vars

(***************************************************************************)
(* The objects the parser builds (tfrddlsim.rddl, tfrddlsim.pvariable):    *)
(* each holds what its constructor was given.                              *)
(***************************************************************************)
RDDL(blocks) == [k |-> "RDDL", blocks |-> blocks]
Domain(name, requirements, domain_list) ==
    [k |-> "Domain", name |-> name, requirements |-> requirements, domain_list |-> domain_list]
Instance(name) == [k |-> "Instance", name |-> name]
NonFluents(name) == [k |-> "NonFluents", name |-> name]
NonFluent(name, range_type, param_types, def_value) ==
    [k |-> "NonFluent", name |-> name, range_type |-> range_type,
     param_types |-> param_types, def_value |-> def_value]
StateFluent(name, range_type, param_types, def_value) ==
    [k |-> "StateFluent", name |-> name, range_type |-> range_type,
     param_types |-> param_types, def_value |-> def_value]
\* param_types when the constructor is given none: a scalar fluent
NoParams == PyList(<<>>)

(***************************************************************************)
(* The grammar: one production per alternative of the p_ functions'        *)
(* docstrings, in their order, after yacc's own start production.          *)
(***************************************************************************)
Prod(func, name, rhs) == [func |-> func, name |-> name, rhs |-> rhs]

Grammar == <<
    Prod("", "S'", <<"rddl">>),
    Prod("p_rddl", "rddl", <<"rddl_block">>),
    Prod("p_rddl_block", "rddl_block", <<"rddl_block", "domain_block">>),
    Prod("p_rddl_block", "rddl_block", <<"rddl_block", "instance_block">>),
    Prod("p_rddl_block", "rddl_block", <<"rddl_block", "nonfluent_block">>),
    Prod("p_rddl_block", "rddl_block", <<"empty">>),
    Prod("p_domain_block", "domain_block",
         <<"DOMAIN", "IDENT", "LCURLY", "req_section", "domain_list", "RCURLY">>),
    Prod("p_req_section", "req_section",
         <<"REQUIREMENTS", "ASSIGN_EQUAL", "LCURLY", "string_list", "RCURLY", "SEMI">>),
    Prod("p_req_section", "req_section",
         <<"REQUIREMENTS", "LCURLY", "string_list", "RCURLY", "SEMI">>),
    Prod("p_req_section", "req_section", <<"empty">>),
    Prod("p_domain_list", "domain_list", <<"domain_list", "type_section">>),
    Prod("p_domain_list", "domain_list", <<"domain_list", "pvar_section">>),
    Prod("p_domain_list", "domain_list", <<"empty">>),
    Prod("p_type_section", "type_section", <<"TYPES", "LCURLY", "type_list", "RCURLY", "SEMI">>),
    Prod("p_type_list", "type_list", <<"type_list", "type_def">>),
    Prod("p_type_list", "type_list", <<"empty">>),
    Prod("p_type_def", "type_def", <<"IDENT", "COLON", "OBJECT", "SEMI">>),
    Prod("p_type_def", "type_def", <<"IDENT", "COLON", "LCURLY", "enum_list", "RCURLY", "SEMI">>),
    Prod("p_enum_list", "enum_list", <<"enum_list", "COMMA", "ENUM_VAL">>),
    Prod("p_enum_list", "enum_list", <<"ENUM_VAL">>),
    Prod("p_enum_list", "enum_list", <<"empty">>),
    Prod("p_pvar_section", "pvar_section",
         <<"PVARIABLES", "LCURLY", "pvar_list", "RCURLY", "SEMI">>),
    Prod("p_pvar_list", "pvar_list", <<"pvar_list", "pvar_def">>),
    Prod("p_pvar_list", "pvar_list", <<"empty">>),
    Prod("p_pvar_def", "pvar_def", <<"nonfluent_def">>),
    Prod("p_pvar_def", "pvar_def", <<"statefluent_def">>),
    Prod("p_nonfluent_def", "nonfluent_def",
         <<"IDENT", "LPAREN", "param_list", "RPAREN", "COLON", "LCURLY", "NON_FLUENT", "COMMA",
           "type_spec", "COMMA", "DEFAULT", "ASSIGN_EQUAL", "range_const", "RCURLY", "SEMI">>),
    Prod("p_nonfluent_def", "nonfluent_def",
         <<"IDENT", "COLON", "LCURLY", "NON_FLUENT", "COMMA",
           "type_spec", "COMMA", "DEFAULT", "ASSIGN_EQUAL", "range_const", "RCURLY", "SEMI">>),
    Prod("p_statefluent_def", "statefluent_def",
         <<"IDENT", "LPAREN", "param_list", "RPAREN", "COLON", "LCURLY", "STATE", "COMMA",
           "type_spec", "COMMA", "DEFAULT", "ASSIGN_EQUAL", "range_const", "RCURLY", "SEMI">>),
    Prod("p_statefluent_def", "statefluent_def",
         <<"IDENT", "COLON", "LCURLY", "STATE", "COMMA",
           "type_spec", "COMMA", "DEFAULT", "ASSIGN_EQUAL", "range_const", "RCURLY", "SEMI">>),
    Prod("p_param_list", "param_list", <<"string_list">>),
    Prod("p_type_spec", "type_spec", <<"IDENT">>),
    Prod("p_type_spec", "type_spec", <<"INT">>),
    Prod("p_type_spec", "type_spec", <<"REAL">>),
    Prod("p_type_spec", "type_spec", <<"BOOL">>),
    Prod("p_range_const", "range_const", <<"bool_type">>),
    Prod("p_range_const", "range_const", <<"double_type">>),
    Prod("p_range_const", "range_const", <<"int_type">>),
    Prod("p_range_const", "range_const", <<"IDENT">>),
    Prod("p_bool_type", "bool_type", <<"TRUE">>),
    Prod("p_bool_type", "bool_type", <<"FALSE">>),
    Prod("p_double_type", "double_type", <<"DOUBLE">>),
    Prod("p_double_type", "double_type", <<"MINUS", "DOUBLE">>),
    Prod("p_double_type", "double_type", <<"POS_INF">>),
    Prod("p_double_type", "double_type", <<"NEG_INF">>),
    Prod("p_int_type", "int_type", <<"INTEGER">>),
    Prod("p_int_type", "int_type", <<"MINUS", "INTEGER">>),
    Prod("p_instance_block", "instance_block", <<"INSTANCE", "IDENT", "LCURLY", "RCURLY">>),
    Prod("p_nonfluent_block", "nonfluent_block", <<"NON_FLUENTS", "IDENT", "LCURLY", "RCURLY">>),
    Prod("p_string_list", "string_list", <<"string_list", "COMMA", "IDENT">>),
    Prod("p_string_list", "string_list", <<"IDENT">>),
    Prod("p_string_list", "string_list", <<"empty">>),
    Prod("p_empty", "empty", <<>>) >>

(***************************************************************************)
(* The p_ functions: p[0] from p[1..], p being the values of the           *)
(* production's right-hand side (len(p) of Python is Len(p) + 1).          *)
(***************************************************************************)
EmptyMap == [x \in {} |-> None]
\* d[key] = value
SetItem(d, key, value) == PyDict((key :> value) @@ d.map)
\* l.append(value)
ListAppend(l, value) == PyList(Append(l.items, value))
\* -v of a number
Neg(v) == IF v.k = "int" THEN PyInt(0 - v.i) ELSE PyFloat(0 - v.num, v.exp)

p_rddl(p) == RDDL(p[1])

\* p_rddl_block that keeps the block a name already has
p_rddl_block_keep_first(p) ==
    IF p[1].k = "None" THEN PyDict(EmptyMap)
    ELSE IF p[2].fst.s \in DOMAIN p[1].map THEN p[1]
    ELSE SetItem(p[1], p[2].fst.s, p[2].snd)

p_rddl_block(p) ==
    IF p[1].k = "None" THEN PyDict(EmptyMap)
    ELSE SetItem(p[1], p[2].fst.s, p[2].snd)

p_domain_block(p) == PyTuple(PyStr("domain"), Domain(p[2], p[4], p[5]))

p_req_section(p) ==
    IF Len(p) + 1 = 7 THEN p[4]
    ELSE IF Len(p) + 1 = 6 THEN p[3]
    ELSE None

\* p_domain_list that adds a section's declarations to those already stored
p_domain_list_concat(p) ==
    IF p[1].k = "None" THEN PyDict(EmptyMap)
    ELSE IF p[2].fst.s \in DOMAIN p[1].map
         THEN SetItem(p[1], p[2].fst.s,
                      PyList(p[1].map[p[2].fst.s].items \o p[2].snd.items))
    ELSE SetItem(p[1], p[2].fst.s, p[2].snd)

p_domain_list(p) ==
    IF p[1].k = "None" THEN PyDict(EmptyMap)
    ELSE SetItem(p[1], p[2].fst.s, p[2].snd)

p_type_section(p) == PyTuple(PyStr("types"), p[3])

p_type_list(p) ==
    IF p[1].k = "None" THEN PyList(<<>>)
    ELSE ListAppend(p[1], p[2])

p_type_def(p) ==
    IF Len(p) + 1 = 5 THEN PyTuple(p[1], p[3])
    ELSE IF Len(p) + 1 = 7 THEN PyTuple(p[1], p[4])
    ELSE None

p_enum_list(p) ==
    IF p[1].k = "None" THEN PyList(<<>>)
    ELSE IF Len(p) + 1 = 4 THEN ListAppend(p[1], p[3])
    ELSE IF Len(p) + 1 = 2 THEN PyList(<<p[1]>>)
    ELSE None

p_pvar_section(p) == PyTuple(PyStr("pvariables"), p[3])

\* p_pvar_list that puts the declaration at the head of the list
p_pvar_list_prepend(p) ==
    IF p[1].k = "None" THEN PyList(<<>>)
    ELSE PyList(<<p[2]>> \o p[1].items)

p_pvar_list(p) ==
    IF p[1].k = "None" THEN PyList(<<>>)
    ELSE ListAppend(p[1], p[2])

p_pvar_def(p) == p[1]

p_nonfluent_def(p) ==
    IF Len(p) + 1 = 16 THEN NonFluent(p[1], p[9], p[3], p[13])
    ELSE NonFluent(p[1], p[6], NoParams, p[10])

p_statefluent_def(p) ==
    IF Len(p) + 1 = 16 THEN StateFluent(p[1], p[9], p[3], p[13])
    ELSE StateFluent(p[1], p[6], NoParams, p[10])

p_param_list(p) == p[1]

p_type_spec(p) == p[1]

p_range_const(p) == p[1]

p_bool_type(p) == PyBool(p[1] = PyStr("TRUE"))

p_double_type(p) == IF Len(p) + 1 = 2 THEN p[1] ELSE Neg(p[2])

p_int_type(p) == IF Len(p) + 1 = 2 THEN p[1] ELSE Neg(p[2])

p_instance_block(p) == PyTuple(PyStr("instance"), Instance(p[2]))

p_nonfluent_block(p) == PyTuple(PyStr("non_fluents"), NonFluents(p[2]))

p_string_list(p) ==
    IF p[1].k = "None" THEN PyList(<<>>)
    ELSE IF Len(p) + 1 = 4 THEN ListAppend(p[1], p[3])
    ELSE IF Len(p) + 1 = 2 THEN PyList(<<p[1]>>)
    ELSE None

p_empty(p) == None

\* p.callable(pslice) of production n
Callable(n, p) ==
    LET f == Grammar[n].func
    IN  CASE f = "p_rddl" -> p_rddl(p)
          [] f = "p_rddl_block" -> p_rddl_block(p)
          [] f = "p_domain_block" -> p_domain_block(p)
          [] f = "p_req_section" -> p_req_section(p)
          [] f = "p_domain_list" -> p_domain_list(p)
          [] f = "p_type_section" -> p_type_section(p)
          [] f = "p_type_list" -> p_type_list(p)
          [] f = "p_type_def" -> p_type_def(p)
          [] f = "p_enum_list" -> p_enum_list(p)
          [] f = "p_pvar_section" -> p_pvar_section(p)
          [] f = "p_pvar_list" -> p_pvar_list(p)
          [] f = "p_pvar_def" -> p_pvar_def(p)
          [] f = "p_nonfluent_def" -> p_nonfluent_def(p)
          [] f = "p_statefluent_def" -> p_statefluent_def(p)
          [] f = "p_param_list" -> p_param_list(p)
          [] f = "p_type_spec" -> p_type_spec(p)
          [] f = "p_range_const" -> p_range_const(p)
          [] f = "p_bool_type" -> p_bool_type(p)
          [] f = "p_double_type" -> p_double_type(p)
          [] f = "p_int_type" -> p_int_type(p)
          [] f = "p_instance_block" -> p_instance_block(p)
          [] f = "p_nonfluent_block" -> p_nonfluent_block(p)
          [] f = "p_string_list" -> p_string_list(p)
          [] f = "p_empty" -> p_empty(p)

(***************************************************************************)
(* yacc.yacc(module=self): the LR automaton of the grammar.  A state is a  *)
(* closed set of items (production, dot); states are numbered from 1, so   *)
(* yacc's state 0 is state 1 here.  In a state the parser shifts the       *)
(* lookahead when an item has it after the dot, and otherwise reduces by   *)
(* the state's complete item; the grammar has no state with two of them.   *)
(* yacc's LALR(1) table refuses a lookahead that cannot follow before some *)
(* of these reductions rather than after them; no token is shifted in      *)
(* between and the p_ functions change nothing but the stack, so the       *)
(* offending token, what p_error is told and what parse() returns are the  *)
(* same.                                                                   *)
(***************************************************************************)
Item(n, d) == [p |-> n, d |-> d]
\* the symbol after the dot of an item, "" when the dot is at the end
NextSym(it) ==
    CHOOSE X \in {IF it.d < Len(rhs) THEN rhs[it.d + 1] ELSE "" : rhs \in {Grammar[it.p].rhs}} :
        TRUE
Symbols ==
    CHOOSE S \in {UNION {{G[n].rhs[d] : d \in 1..Len(G[n].rhs)} : n \in 1..Len(G)} :
                    G \in {Grammar}} : TRUE

\* I with the items that start a production of a symbol after a dot of I
More(I) ==
    CHOOSE J \in {I \cup {Item(n, 0) : n \in {m \in 1..Len(G) : G[m].name \in wanted}} :
                    G \in {Grammar}, wanted \in {{NextSym(it) : it \in I}}} : TRUE

RECURSIVE Closure(_)
Closure(I) == CHOOSE C \in {IF J = I THEN I ELSE Closure(J) : J \in {More(I)}} : TRUE

Goto(I, X) == Closure({Item(it.p, it.d + 1) : it \in {jt \in I : NextSym(jt) = X}})

RECURSIVE SetToSeq(_)
SetToSeq(S) ==
    IF S = {} THEN <<>>
    ELSE CHOOSE q \in {<<x>> \o SetToSeq(S \ {x}) : x \in {CHOOSE y \in S : TRUE}} : TRUE

\* the states reached from those of seq, those before the i-th done: the states
\* a step away from the others are added, then those a step away from these
RECURSIVE Collect(_, _)
Collect(seq, i) ==
    IF i > Len(seq) THEN seq
    ELSE CHOOSE q \in
           {Collect(seq \o SetToSeq((near \ {{}}) \ {seq[j] : j \in 1..Len(seq)}), Len(seq) + 1) :
               near \in {UNION {{Goto(seq[j], X) : X \in syms} : j \in i..Len(seq)} :
                            syms \in {Symbols}}} : TRUE

LRStates == Collect(<<Closure({Item(1, 0)})>>, 1)

\* goto[state][symbol], 0 where there is none
GotoTab ==
    CHOOSE T \in
      {[i \in 1..Len(S) |->
          [X \in syms |->
              CHOOSE n \in {IF J = {} THEN 0 ELSE CHOOSE j \in 1..Len(S) : S[j] = J :
                              J \in {Goto(S[i], X)}} : TRUE]] :
         S \in {LRStates}, syms \in {Symbols}} : TRUE

\* the production the state reduces by, 0 where it has no complete item
ReduceTab ==
    CHOOSE T \in
      {[i \in 1..Len(S) |->
          CHOOSE n \in {IF done = {} THEN 0 ELSE CHOOSE m \in done : TRUE :
                          done \in {{it.p : it \in {jt \in S[i] : NextSym(jt) = ""}}}} : TRUE] :
         S \in {LRStates}} : TRUE

\* no state has two complete items: with a shift taken where there is one, the
\* tables above are the whole of the automaton
Deterministic ==
    \A S \in {LRStates} : \A i \in 1..Len(S) :
        Cardinality({it \in S[i] : NextSym(it) = ""}) <= 1

\* action[state][ltype]: "shift", "reduce", "accept" or "none" (a syntax error)
ActionOf(state, ltype) ==
    CHOOSE a \in
      {IF ltype \in DOMAIN row /\ row[ltype] # 0 THEN "shift"
       ELSE IF ltype = "error" THEN "none"
       ELSE IF n = 1 THEN (IF ltype = "$end" THEN "accept" ELSE "none")
       ELSE IF n # 0 THEN "reduce"
       ELSE "none" :
         row \in {GotoTab[state]}, n \in {ReduceTab[state]}} : TRUE

\* yacc's error_count: the shifts after an error in which p_error is not called
error_count == 3

Sym(type, value) == [type |-> type, value |-> value]

(***************************************************************************)
(* RDDLParser.parse: yacc's parser loop, one action per turn of the loop.   *)
(* Every turn first takes the lookahead, from the lexer when it has none.  *)
(***************************************************************************)
\* the lookahead of this turn, and the lexer and the pushback stack after it
Fetch ==
    IF lookahead # NoToken
    THEN [la |-> lookahead, las |-> lookaheadstack,
          lexpos |-> lexpos, lineno |-> lineno, out |-> out]
    ELSE IF lookaheadstack = <<>>
    THEN CHOOSE f \in
           {[la |-> IF r.tok = NoToken THEN Tok("$end", None, 0, 0) ELSE r.tok,
             las |-> lookaheadstack, lexpos |-> r.lexpos, lineno |-> r.lineno, out |-> r.out] :
              r \in {token(lexdata, lexpos, lineno, out)}} : TRUE
    ELSE [la |-> lookaheadstack[Len(lookaheadstack)],
          las |-> SubSeq(lookaheadstack, 1, Len(lookaheadstack) - 1),
          lexpos |-> lexpos, lineno |-> lineno, out |-> out]

State == statestack[Len(statestack)]
\* what the tables say of the state and the lookahead f.la
Turn(f, kind) == ActionOf(State, f.la.type) = kind

\* t > 0: shift a symbol on the stack
Shift ==
    /\ ppc = "running"
    /\ \E f \in {Fetch} :
           /\ Turn(f, "shift")
           /\ statestack' = Append(statestack, GotoTab[State][f.la.type])
           /\ symstack' = Append(symstack, Sym(f.la.type, f.la.value))
           /\ lookahead' = NoToken
           /\ lookaheadstack' = f.las
           /\ errorcount' = IF errorcount > 0 THEN errorcount - 1 ELSE 0
           /\ lexpos' = f.lexpos
           /\ lineno' = f.lineno
           /\ out' = f.out
    /\ UNCHANGED <<lexdata, yielded, lpc, src, ppc, result, sim>>

\* t < 0: reduce a symbol on the stack
Reduce ==
    /\ ppc = "running"
    /\ \E f \in {Fetch} :
           /\ Turn(f, "reduce")
           /\ \E n \in {ReduceTab[State]} : \E prod \in {Grammar[n]} :
                LET plen == Len(prod.rhs)
                    keep == Len(symstack) - plen
                    p == [i \in 1..plen |-> symstack[keep + i].value]
                    below == SubSeq(statestack, 1, Len(statestack) - plen)
                IN  /\ symstack' = Append(SubSeq(symstack, 1, keep),
                                          Sym(prod.name, Callable(n, p)))
                    /\ statestack' = Append(below, GotoTab[below[Len(below)]][prod.name])
           /\ lookahead' = f.la
           /\ lookaheadstack' = f.las
           /\ lexpos' = f.lexpos
           /\ lineno' = f.lineno
           /\ out' = f.out
    /\ UNCHANGED <<lexdata, yielded, lpc, src, ppc, errorcount, result, sim>>

\* t == 0: the parse is over, parse() returns the value of the start symbol
Accept ==
    /\ ppc = "running"
    /\ \E f \in {Fetch} :
           /\ Turn(f, "accept")
           /\ result' = symstack[Len(symstack)].value
           /\ lexpos' = f.lexpos
           /\ lineno' = f.lineno
           /\ out' = f.out
    /\ ppc' = "done"
    /\ lookahead' = NoToken
    /\ lookaheadstack' = <<>>
    /\ statestack' = <<>>
    /\ symstack' = <<>>
    /\ UNCHANGED <<lexdata, yielded, lpc, src, errorcount, sim>>

\* p_error: it prints, and neither raises nor calls errok()
p_error(log) == Append(log, [msg |-> "Syntax error in input!"])

\* t is None: yacc calls p_error unless an error was met less than error_count
\* shifts ago; what is printed after this turn
Reported(log) == IF errorcount = 0 THEN p_error(log) ELSE log

\* ... the whole parse has been rolled back: the token is discarded and the
\* parse goes on from yacc's first state
ErrorDiscard ==
    /\ ppc = "running"
    /\ Len(statestack) <= 1
    /\ \E f \in {Fetch} :
           /\ Turn(f, "none")
           /\ f.la.type # "$end"
           /\ out' = Reported(f.out)
           /\ lexpos' = f.lexpos
           /\ lineno' = f.lineno
    /\ errorcount' = error_count
    /\ lookahead' = NoToken
    /\ lookaheadstack' = <<>>
    /\ statestack' = <<1>>
    /\ UNCHANGED <<lexdata, yielded, lpc, src, ppc, symstack, result, sim>>

\* ... at the end of the text: parse() returns None
ErrorBail ==
    /\ ppc = "running"
    /\ Len(statestack) > 1
    /\ \E f \in {Fetch} :
           /\ Turn(f, "none")
           /\ f.la.type = "$end"
           /\ out' = Reported(f.out)
           /\ lexpos' = f.lexpos
           /\ lineno' = f.lineno
    /\ errorcount' = error_count
    /\ result' = None
    /\ ppc' = "done"
    /\ lookahead' = NoToken
    /\ lookaheadstack' = <<>>
    /\ statestack' = <<>>
    /\ symstack' = <<>>
    /\ UNCHANGED <<lexdata, yielded, lpc, src, sim>>

\* ... the error symbol becomes the lookahead, the token is pushed back
ErrorSymbol ==
    /\ ppc = "running"
    /\ Len(statestack) > 1
    /\ \E f \in {Fetch} :
           /\ Turn(f, "none")
           /\ f.la.type \notin {"$end", "error"}
           /\ out' = Reported(f.out)
           /\ lexpos' = f.lexpos
           /\ lineno' = f.lineno
           /\ lookaheadstack' = Append(f.las, f.la)
           /\ lookahead' = Tok("error", f.la.value, f.la.lineno, f.la.lexpos)
    /\ errorcount' = error_count
    /\ UNCHANGED <<lexdata, yielded, lpc, src, ppc, statestack, symstack, result, sim>>

\* ... the error symbol is the lookahead and the state has no rule for it: pop
ErrorPop ==
    /\ ppc = "running"
    /\ Len(statestack) > 1
    /\ lookahead.type = "error"
    /\ out' = Reported(out)
    /\ errorcount' = error_count
    /\ statestack' = SubSeq(statestack, 1, Len(statestack) - 1)
    /\ symstack' = SubSeq(symstack, 1, Len(symstack) - 1)
    /\ UNCHANGED <<lexdata, lexpos, lineno, yielded, lpc, src, ppc, lookahead, lookaheadstack,
                   result, sim>>

(***************************************************************************)
(* The texts given to parse(): each is written out from a description of   *)
(* its syntax (src), lexeme by lexeme with a blank between two lexemes, so *)
(* that what parse() returns can be compared with what the text says.      *)
(* A lexeme is a sequence of characters.                                   *)
(***************************************************************************)
\* longest sequence of blocks in a text
MaxBlocks == 3
\* longest list (of declarations, enum values, parameters, requirements)
MaxList == 2
\* most sections in a domain
MaxSecs == 3

\* the words of the language the texts use, spelled out
Sp ==
    ("domain" :> <<"d", "o", "m", "a", "i", "n">>) @@
    ("instance" :> <<"i", "n", "s", "t", "a", "n", "c", "e">>) @@
    ("non-fluents" :> <<"n", "o", "n", "-", "f", "l", "u", "e", "n", "t", "s">>) @@
    ("requirements" :> <<"r", "e", "q", "u", "i", "r", "e", "m", "e", "n", "t", "s">>) @@
    ("types" :> <<"t", "y", "p", "e", "s">>) @@
    ("pvariables" :> <<"p", "v", "a", "r", "i", "a", "b", "l", "e", "s">>) @@
    ("object" :> <<"o", "b", "j", "e", "c", "t">>) @@
    ("default" :> <<"d", "e", "f", "a", "u", "l", "t">>) @@
    ("bool" :> <<"b", "o", "o", "l">>) @@
    ("int" :> <<"i", "n", "t">>) @@
    ("real" :> <<"r", "e", "a", "l">>) @@
    ("true" :> <<"t", "r", "u", "e">>) @@
    ("false" :> <<"f", "a", "l", "s", "e">>) @@
    ("pos-inf" :> <<"p", "o", "s", "-", "i", "n", "f">>) @@
    ("neg-inf" :> <<"n", "e", "g", "-", "i", "n", "f">>) @@
    ("non-fluent" :> <<"n", "o", "n", "-", "f", "l", "u", "e", "n", "t">>) @@
    ("state-fluent" :> <<"s", "t", "a", "t", "e", "-", "f", "l", "u", "e", "n", "t">>) @@
    ("action-fluent" :> <<"a", "c", "t", "i", "o", "n", "-", "f", "l", "u", "e", "n", "t">>) @@
    ("interm-fluent" :> <<"i", "n", "t", "e", "r", "m", "-", "f", "l", "u", "e", "n", "t">>) @@
    ("derived-fluent" :> <<"d", "e", "r", "i", "v", "e", "d", "-", "f", "l", "u", "e", "n", "t">>) @@
    ("observ-fluent" :> <<"o", "b", "s", "e", "r", "v", "-", "f", "l", "u", "e", "n", "t">>)

RECURSIVE Flat(_)
Flat(ss) == IF ss = <<>> THEN <<>> ELSE Head(ss) \o Flat(Tail(ss))

\* the lexemes with a blank between two of them
RECURSIVE Join(_)
Join(ls) ==
    IF ls = <<>> THEN <<>>
    ELSE IF Len(ls) = 1 THEN ls[1]
    ELSE ls[1] \o <<" ">> \o Join(Tail(ls))

\* the lexemes with a comma between two of them
RECURSIVE Commas(_)
Commas(ls) ==
    IF Len(ls) <= 1 THEN ls
    ELSE <<ls[1], <<",">>>> \o Commas(Tail(ls))

\* the sequences of at most n elements of S
RECURSIVE SeqsUpTo(_, _)
SeqsUpTo(S, n) ==
    IF n = 0 THEN {<<>>}
    ELSE LET shorter == SeqsUpTo(S, n - 1)
         IN  shorter \cup {Append(q, x) : q \in {r \in shorter : Len(r) = n - 1}, x \in S}

\* name ( params ) : { class , range , default = def } ;   (or without the parameters)
PvarDecl(name, form, params, cls, range, def) ==
    [name |-> name, form |-> form, params |-> params, cls |-> cls, range |-> range, def |-> def]
LexPvar(d) ==
    <<d.name>>
    \o (IF d.form = "param" THEN <<<<"(">>>> \o Commas(d.params) \o <<<<")">>>> ELSE <<>>)
    \o <<<<":">>, <<"{">>, d.cls, <<",">>, d.range, <<",">>, Sp["default"], <<"=">>>>
    \o d.def
    \o <<<<"}">>, <<";">>>>

\* name : object ;   or   name : { @a , @b } ;
TypeDecl(name, object, enums) == [name |-> name, object |-> object, enums |-> enums]
LexType(d) ==
    <<d.name, <<":">>>>
    \o (IF d.object THEN <<Sp["object"]>> ELSE <<<<"{">>>> \o Commas(d.enums) \o <<<<"}">>>>)
    \o <<<<";">>>>

\* types { ... } ;   or   pvariables { ... } ;
Section(kind, decls) == [kind |-> kind, decls |-> decls]
LexSection(sec) ==
    <<Sp[sec.kind], <<"{">>>>
    \o Flat([i \in 1..Len(sec.decls) |->
                IF sec.kind = "types" THEN LexType(sec.decls[i]) ELSE LexPvar(sec.decls[i])])
    \o <<<<"}">>, <<";">>>>

\* requirements = { r , s } ;   or without the =   or nothing
Req(form, names) == [form |-> form, names |-> names]
NoReq == Req("none", <<>>)
LexReq(r) ==
    IF r.form = "none" THEN <<>>
    ELSE <<Sp["requirements"]>>
         \o (IF r.form = "assign" THEN <<<<"=">>>> ELSE <<>>)
         \o <<<<"{">>>> \o Commas(r.names) \o <<<<"}">>, <<";">>>>

\* a block: domain name { req sections } , instance name { } , non-fluents name { } ,
\* or (kind "broken") a domain block without the lexeme number drop
Block(kind, name, req, secs, drop) ==
    [kind |-> kind, name |-> name, req |-> req, secs |-> secs, drop |-> drop]
LexDomain(b) ==
    <<Sp["domain"], b.name, <<"{">>>>
    \o LexReq(b.req)
    \o Flat([i \in 1..Len(b.secs) |-> LexSection(b.secs[i])])
    \o <<<<"}">>>>
Without(ls, n) == SubSeq(ls, 1, n - 1) \o SubSeq(ls, n + 1, Len(ls))
LexBlock(b) ==
    CASE b.kind = "domain" -> LexDomain(b)
      [] b.kind = "instance" -> <<Sp["instance"], b.name, <<"{">>, <<"}">>>>
      [] b.kind = "non_fluents" -> <<Sp["non-fluents"], b.name, <<"{">>, <<"}">>>>
      [] b.kind = "broken" -> Without(LexDomain(b), b.drop)

Lexemes(s) == Flat([i \in 1..Len(s) |-> LexBlock(s[i])])
Text(s) == CHOOSE t \in {Join(ls) : ls \in {Lexemes(s)}} : TRUE

(***************************************************************************)
(* The texts the model gives to parse().                                   *)
(***************************************************************************)
DeclX == PvarDecl(<<"x">>, "scalar", <<>>, Sp["state-fluent"], Sp["bool"], <<Sp["false"]>>)
DeclY == PvarDecl(<<"y">>, "param", <<<<"t">>>>, Sp["non-fluent"], Sp["int"], <<<<"3">>>>)
TypeT == TypeDecl(<<"t">>, TRUE, <<>>)
TypeU == TypeDecl(<<"u">>, FALSE, <<<<"@", "a">>, <<"@", "b">>>>)

Classes == {Sp["non-fluent"], Sp["state-fluent"], Sp["action-fluent"],
            Sp["interm-fluent"], Sp["derived-fluent"], Sp["observ-fluent"]}
Forms == {"scalar", "param"}
Ranges == {Sp["bool"], Sp["int"], Sp["real"], <<"t">>}
Defaults == {<<Sp["true"]>>, <<Sp["false"]>>, <<<<"3">>>>, <<<<"-", "3">>>>,
             <<<<"1", ".", "5">>>>, <<<<"-", "1", ".", "5">>>>,
             <<Sp["pos-inf"]>>, <<Sp["neg-inf"]>>, <<<<"e">>>>}

Dom(name, req, secs) == Block("domain", name, req, secs, 0)
OneSection(sec) == <<Dom(<<"d">>, NoReq, <<sec>>)>>
OneDecl(d) == OneSection(Section("pvariables", <<d>>))

\* one declaration of every fluent class, with and without parameters
ClassInputs ==
    {OneDecl(PvarDecl(<<"x">>, f, IF f = "param" THEN <<<<"t">>>> ELSE <<>>,
                      c, Sp["bool"], <<Sp["false"]>>)) : c \in Classes, f \in Forms}
\* one declaration of every range type with every kind of default
RangeInputs == {OneDecl([DeclX EXCEPT !.range = r, !.def = d]) : r \in Ranges, d \in Defaults}
\* the lists of every kind, of every length up to MaxList
PvarListInputs ==
    {OneSection(Section("pvariables", l)) : l \in SeqsUpTo({DeclX, DeclY}, MaxList)}
TypeListInputs ==
    {OneSection(Section("types", l)) : l \in SeqsUpTo({TypeT, TypeU}, MaxList)}
EnumListInputs ==
    {OneSection(Section("types", <<TypeDecl(<<"u">>, FALSE, l)>>)) :
        l \in SeqsUpTo({<<"@", "a">>, <<"@", "b">>}, MaxList)}
ParamListInputs ==
    {OneDecl([DeclY EXCEPT !.params = l]) : l \in SeqsUpTo({<<"t">>, <<"u">>}, MaxList)}
ReqListInputs ==
    {<<Dom(<<"d">>, Req(f, l), <<>>)>> :
        f \in {"assign", "plain"}, l \in SeqsUpTo({<<"r">>, <<"s">>}, MaxList)}
\* the sections of a domain, up to MaxSecs of them
SectionInputs ==
    {<<Dom(<<"d">>, NoReq, ss)>> :
        ss \in SeqsUpTo({Section("types", <<TypeT>>), Section("types", <<TypeU>>),
                         Section("pvariables", <<DeclX>>), Section("pvariables", <<DeclY>>)},
                        MaxSecs)}

\* the block of a kind at place i of a text, named after its place
Kinds == {"domain", "instance", "non_fluents"}
DigitChar == <<"1", "2", "3", "4", "5", "6", "7", "8", "9">>
BlockAt(kind, i) ==
    Block(kind, <<"b", DigitChar[i]>>, NoReq,
          IF kind = "domain" THEN <<Section("pvariables", <<DeclX>>)>> ELSE <<>>, 0)
\* the sequences of blocks, up to MaxBlocks of them
BlockInputs ==
    {[i \in 1..Len(ks) |-> BlockAt(ks[i], i)] : ks \in SeqsUpTo(Kinds, MaxBlocks)}
\* a domain block that lacks one lexeme, any of them, alone, after a block,
\* before a block or between two
BrokenInputs ==
    {[i \in 1..Len(pre) |-> BlockAt(pre[i], 1)]
       \o <<[BlockAt("domain", 2) EXCEPT !.kind = "broken", !.drop = n]>>
       \o [i \in 1..Len(post) |-> BlockAt(post[i], 3)] :
        pre \in SeqsUpTo(Kinds, 1), post \in SeqsUpTo(Kinds, 1),
        n \in 1..Len(LexDomain(BlockAt("domain", 2)))}

Inputs ==
    ClassInputs \cup RangeInputs \cup PvarListInputs \cup TypeListInputs \cup EnumListInputs
    \cup ParamListInputs \cup ReqListInputs \cup SectionInputs \cup BlockInputs \cup BrokenInputs

InputTexts == {[src |-> s, text |-> Text(s)] : s \in Inputs}

\* RDDLParser.parse(input): the lexer is given the text, the stacks are new
ParseCall ==
    /\ ppc \in {"idle", "done"}
    /\ \E i \in InputTexts :
         /\ src' = i.src
         /\ lexdata' = i.text
    /\ lexpos' = 0
    /\ out' = <<>>
    /\ ppc' = "running"
    /\ lookahead' = NoToken
    /\ lookaheadstack' = <<>>
    /\ statestack' = <<1>>
    /\ symstack' = <<Sym("$end", None)>>
    /\ errorcount' = 0
    /\ result' = None
    /\ UNCHANGED <<lineno, yielded, lpc, sim>>

ParseInit == LexIdle /\ ParseIdle /\ SimIdle
ParseNext ==
    \/ ParseCall
    \/ Shift
    \/ Reduce
    \/ Accept
    \/ ErrorDiscard
    \/ ErrorBail
    \/ ErrorSymbol
    \/ ErrorPop
SpecParse == ParseInit /\ [][ParseNext]_vars

(***************************************************************************)
(* The Simulator (tfrddlsim.simulator), after its description: a           *)
(* simulator of a batch size, its timesteps(horizon), and its              *)
(* trajectory(horizon), which unrolls the transition operator              *)
(* (SimulationCell) one step per turn.  A batched array is a sequence with *)
(* one entry per sample; every fluent here has the shape (1,).             *)
(***************************************************************************)
\* longest horizon
MaxHorizon == 3
\* largest batch
MaxBatch == 2
\* most state fluents, and most action fluents
MaxFluents == 2
\* largest value of a fluent
MaxValue == 1

Values == 0..MaxValue

\* timesteps counting the wrong way
timesteps_ascending(horizon, batch) ==
    [b \in 1..batch |-> [t \in 1..horizon |-> <<t - 1>>]]

\* Simulator.timesteps(horizon): for every sample horizon-1, ..., 0
timesteps(horizon, batch) ==
    [b \in 1..batch |-> [t \in 1..horizon |-> <<horizon - t>>]]

\* SimulationCell.initial_state(): every state fluent's default for every sample
initial_state(defaults, batch) ==
    [i \in 1..Len(defaults) |-> [b \in 1..batch |-> <<defaults[i]>>]]

\* the policy: one batched array per action fluent, from the state
policy(state, naction) ==
    [j \in 1..naction |->
        [b \in 1..Len(state[1]) |-> <<(state[1][b][1] + j) % (MaxValue + 1)>>]]

\* SimulationCell.__call__(timestep, state): the action from the policy, the next
\* state and the reward from the compiled expressions, whose sampling is noise
cell(timestep, state, naction, noise) ==
    LET action == policy(state, naction)
        next_state ==
            [i \in 1..Len(state) |->
                [b \in 1..Len(timestep) |->
                    <<(state[i][b][1] + action[1][b][1] + noise) % (MaxValue + 1)>>]]
        reward ==
            [b \in 1..Len(timestep) |-> <<(state[1][b][1] + timestep[b][1]) % (MaxValue + 1)>>]
    IN  [output |-> [next_state |-> next_state, action |-> action, reward |-> reward],
         next_state |-> next_state]

\* a step that is given the state it was given itself
carry_stale(state, next_state) == state

\* the state the next step is given
carry(state, next_state) == next_state

\* what one component of the outputs over the steps becomes: for every sample
\* the sequence of its entries
Batched(steps, batch) == [b \in 1..batch |-> [t \in 1..Len(steps) |-> steps[t][b]]]

SimCallable == sim.pc \in {"ready", "timesteps", "returned"}

\* Simulator(compiler, policy, batch_size)
SimNew ==
    /\ sim.pc = "idle"
    /\ \E batch \in 1..MaxBatch, nstate \in 1..MaxFluents, naction \in 1..MaxFluents :
         \E defaults \in [1..nstate -> Values] :
            sim' = [pc |-> "ready", batch |-> batch, defaults |-> defaults,
                    naction |-> naction]
    /\ UNCHANGED lexvars
    /\ UNCHANGED parsevars

\* Simulator.timesteps(horizon)
SimTimesteps ==
    /\ SimCallable
    /\ \E horizon \in 1..MaxHorizon :
         sim' = [pc |-> "timesteps", batch |-> sim.batch, defaults |-> sim.defaults,
                 naction |-> sim.naction, horizon |-> horizon,
                 returned |-> timesteps(horizon, sim.batch)]
    /\ UNCHANGED lexvars
    /\ UNCHANGED parsevars

\* Simulator.trajectory(horizon): the inputs and the initial state
SimTrajectory ==
    /\ SimCallable
    /\ \E horizon \in 1..MaxHorizon :
         sim' = [pc |-> "unrolling", batch |-> sim.batch, defaults |-> sim.defaults,
                 naction |-> sim.naction, horizon |-> horizon,
                 inputs |-> timesteps(horizon, sim.batch),
                 state |-> initial_state(sim.defaults, sim.batch),
                 calls |-> <<>>]
    /\ UNCHANGED lexvars
    /\ UNCHANGED parsevars

\* ... one step of the unrolling: the cell on the next timestep and the state
SimStep ==
    /\ sim.pc = "unrolling"
    /\ Len(sim.calls) < sim.horizon
    /\ \E noise \in Values :
         LET timestep == [b \in 1..sim.batch |-> sim.inputs[b][Len(sim.calls) + 1]]
             r == cell(timestep, sim.state, sim.naction, noise)
         IN  sim' = [sim EXCEPT
                        !.state = carry(sim.state, r.next_state),
                        !.calls = Append(sim.calls,
                                         [timestep |-> timestep, state |-> sim.state,
                                          output |-> r.output, next_state |-> r.next_state])]
    /\ UNCHANGED lexvars
    /\ UNCHANGED parsevars

\* ... the outputs of the steps, per component, and the last state
SimReturn ==
    /\ sim.pc = "unrolling"
    /\ Len(sim.calls) = sim.horizon
    /\ LET nstate == Len(sim.defaults)
           states == [i \in 1..nstate |->
                         Batched([t \in 1..Len(sim.calls) |-> sim.calls[t].output.next_state[i]],
                                 sim.batch)]
           actions == [j \in 1..sim.naction |->
                          Batched([t \in 1..Len(sim.calls) |-> sim.calls[t].output.action[j]],
                                  sim.batch)]
           rewards == Batched([t \in 1..Len(sim.calls) |-> sim.calls[t].output.reward],
                              sim.batch)
       IN  sim' = [pc |-> "returned", batch |-> sim.batch, defaults |-> sim.defaults,
                   naction |-> sim.naction, horizon |-> sim.horizon, calls |-> sim.calls,
                   outputs |-> [states |-> states, actions |-> actions, rewards |-> rewards],
                   final_state |-> sim.state]
    /\ UNCHANGED lexvars
    /\ UNCHANGED parsevars

SimInit == LexIdle /\ ParseIdle /\ SimIdle
SimNext == SimNew \/ SimTimesteps \/ SimTrajectory \/ SimStep \/ SimReturn
SpecSim == SimInit /\ [][SimNext]_vars

(***************************************************************************)
(* What the lexer claims are stated with.                                  *)
(***************************************************************************)
\* the number of newline characters among the first n characters of data
RECURSIVE NewlinesBefore(_, _)
NewlinesBefore(data, n) ==
    IF n = 0 THEN 0
    ELSE NewlinesBefore(data, n - 1) + (IF data[n] = "\n" THEN 1 ELSE 0)

\* c starts no token pattern, whatever follows it
StartsNoPattern(c) ==
    /\ c \notin t_ignore
    /\ \A d \in Charset \cup {""} : Match(IF d = "" THEN <<c>> ELSE <<c, d>>, 0).len = 0

\* the characters that start no token pattern
Illegal == {c \in Charset : StartsNoPattern(c)}

\* the character at p (0-based) lies in a comment: a // precedes it on its line
InComment(data, p) ==
    \E q \in 0..(p - 2) :
        /\ CharAt(data, q) = "/"
        /\ CharAt(data, q + 1) = "/"
        /\ \A r \in q..p : CharAt(data, r) # "\n"

\* data with a blank in the place of every character that starts no pattern
Blanked(data) == [i \in 1..Len(data) |-> IF data[i] \in Illegal THEN " " ELSE data[i]]

\* the tokens of data from pos on, as token() gives them one after the other
RECURSIVE AllTokens(_, _, _)
AllTokens(data, pos, line) ==
    LET r == token(data, pos, line, <<>>)
    IN  IF r.tok = NoToken THEN <<>> ELSE <<r.tok>> \o AllTokens(data, r.lexpos, r.lineno)

\* a token without its line
Unlined(toks) == [i \in 1..Len(toks) |-> [type |-> toks[i].type, value |-> toks[i].value,
                                           lexpos |-> toks[i].lexpos]]

IllegalReports == {i \in 1..Len(out) : out[i].msg = "Illegal character"}

\* C6: a character that starts no token pattern is reported with the line the
\* lexer is at (the lines of the report and of every token differ by the
\* newlines between them) and skipped alone: once the generator has ended,
\* lexpos is past the end of the text, the characters reported are exactly
\* those of the text that start no pattern and lie in no comment, and the
\* tokens yielded are, in order, those of the text with a blank for each.
C6_IllegalCharSkipped ==
    /\ \A i \in IllegalReports :
         /\ out[i].ch = CharAt(lexdata, out[i].at)
         /\ out[i].ch \in Illegal
         /\ \A j \in 1..Len(yielded) :
              yielded[j].lineno - out[i].line =
                  NewlinesBefore(lexdata, yielded[j].lexpos) - NewlinesBefore(lexdata, out[i].at)
    /\ lpc = "done" =>
         /\ lexpos = Len(lexdata) + 1
         /\ {out[i].at : i \in IllegalReports} =
                {p \in 0..(Len(lexdata) - 1) :
                    CharAt(lexdata, p) \in Illegal /\ ~InComment(lexdata, p)}
         /\ Len(out) = Cardinality(IllegalReports)
         /\ \A i, j \in IllegalReports : i < j => out[i].at < out[j].at
         /\ Unlined(yielded) = Unlined(AllTokens(Blanked(lexdata), 0, 1))

\* an illegal character was reported and skipped, and a token after it yielded
C6_Witness ==
    /\ lpc = "done"
    /\ \E i \in IllegalReports : \E j \in 1..Len(yielded) :
         /\ yielded[j].lexpos = out[i].at + 1
         /\ \E l \in 1..Len(yielded) : yielded[l].lexpos < out[i].at

\* C10: the line of every token, and of every illegal character reported, is 1
\* plus the number of newline characters before it in the text being lexed,
\* whatever was lexed through the same lexer before.
C10_LineOfCurrentText ==
    /\ \A j \in 1..Len(yielded) :
         yielded[j].lineno = 1 + NewlinesBefore(lexdata, yielded[j].lexpos)
    /\ \A i \in IllegalReports :
         out[i].line = 1 + NewlinesBefore(lexdata, out[i].at)

(***************************************************************************)
(* What the parser claims are stated with.                                 *)
(***************************************************************************)
\* p_error was called during the parse
SyntaxError == \E i \in 1..Len(out) : out[i].msg = "Syntax error in input!"

\* parse() returned an object tree
Tree == ppc = "done" /\ result.k = "RDDL"

\* the blocks of the tree, by name
Blocks == result.blocks.map

\* the string the characters cs make, and the list of the strings of ls
Str(cs) == PyStr(Concat(cs))
Strs(ls) == PyList([i \in 1..Len(ls) |-> Str(ls[i])])

\* the pvariable declarations of the tree's domain
Decls ==
    IF Tree /\ "domain" \in DOMAIN Blocks
    THEN LET sections == Blocks["domain"].domain_list.map
         IN  IF "pvariables" \in DOMAIN sections THEN sections["pvariables"].items ELSE <<>>
    ELSE <<>>

\* the kinds of the elements of s, and the last element of s of a kind
KindsOf(s) == {s[i].kind : i \in 1..Len(s)}
LastOf(s, kind) ==
    s[CHOOSE i \in 1..Len(s) : s[i].kind = kind /\ \A j \in (i + 1)..Len(s) : s[j].kind # kind]

\* the class of the object that stands for a block or for a declaration
ClassOf ==
    ("domain" :> "Domain") @@ ("instance" :> "Instance") @@ ("non_fluents" :> "NonFluents")
FluentClassOf(cls) ==
    CASE cls = Sp["non-fluent"] -> "NonFluent"
      [] cls = Sp["state-fluent"] -> "StateFluent"
      [] cls = Sp["action-fluent"] -> "ActionFluent"
      [] cls = Sp["interm-fluent"] -> "IntermFluent"
      [] cls = Sp["derived-fluent"] -> "DerivedFluent"
      [] cls = Sp["observ-fluent"] -> "ObservFluent"

\* the one declaration of a text of one declaration
TheDecl == src[1].secs[1].decls[1]
OneDeclInputs == ClassInputs \cup RangeInputs

\* C1: a parse that met a syntax error returns no object tree, wherever the
\* offending token stands and whatever blocks come before or after it.
C1_SyntaxErrorYieldsNoTree ==
    (ppc = "done" /\ SyntaxError) => result = None

\* C2: a declaration of any of the six fluent classes, with or without
\* parameters, parses without a syntax error, and the declaration in the tree
\* carries its name, parameter types, range type, default value and class.
C2_EveryFluentClassParses ==
    (ppc = "done" /\ src \in ClassInputs) =>
        /\ ~SyntaxError
        /\ Len(Decls) = 1
        /\ Decls[1].k = FluentClassOf(TheDecl.cls)
        /\ Decls[1].name = Str(TheDecl.name)
        /\ Decls[1].param_types = Strs(TheDecl.params)
        /\ Decls[1].range_type = Str(TheDecl.range)
        /\ Decls[1].def_value = PyBool(FALSE)

\* the kind of the default value goes with the range type
Compatible(range_type, def_value) ==
    LET infinite == def_value \in {PyStr("pos-inf"), PyStr("neg-inf")}
    IN  CASE range_type = PyStr("bool") -> def_value.k = "bool"
          [] range_type = PyStr("int") -> def_value.k = "int"
          [] range_type = PyStr("real") -> def_value.k = "float" \/ infinite
          [] OTHER -> def_value.k = "str" /\ ~infinite

\* C3: in every tree parse() returns, the default value of every pvariable
\* declaration is of the kind of its range type: a boolean for bool, an integer
\* for int, a double or an infinity marker for real, an identifier for a named type.
C3_DefaultMatchesRange ==
    Tree => \A i \in 1..Len(Decls) : Compatible(Decls[i].range_type, Decls[i].def_value)

\* C4: after a parse without a syntax error the tree holds one block for every
\* kind of block of the text and none else, and the block under a name is the
\* last block of that kind in the text, whatever blocks of other kinds stand
\* around it.
C4_LastBlockWins ==
    (ppc = "done" /\ ~SyntaxError) =>
        /\ Tree
        /\ DOMAIN Blocks = KindsOf(src)
        /\ \A kind \in KindsOf(src) :
             /\ Blocks[kind].k = ClassOf[kind]
             /\ Blocks[kind].name = Str(LastOf(src, kind).name)

\* two domain blocks with an instance block between them: the second domain
\* block is the one stored, and the instance block is still there
C4_Witness ==
    /\ Tree
    /\ Len(src) = 3
    /\ <<src[1].kind, src[2].kind, src[3].kind>> = <<"domain", "instance", "domain">>
    /\ Blocks["domain"].name = Str(src[3].name)
    /\ Blocks["instance"].name = Str(src[2].name)

\* what the text says of a type and of a pvariable: the name with the enum
\* values, the name with the parameters
SaidType(d) == PyTuple(Str(d.name), IF d.object THEN PyStr("object") ELSE Strs(d.enums))
SaidPvar(d) == <<Str(d.name), IF d.form = "param" THEN Strs(d.params) ELSE NoParams>>
SaidDecls(sec) ==
    [i \in 1..Len(sec.decls) |->
        IF sec.kind = "types" THEN SaidType(sec.decls[i]) ELSE SaidPvar(sec.decls[i])]
\* the same of a list of the tree
HeardDecls(kind, list) ==
    [i \in 1..Len(list.items) |->
        IF kind = "types" THEN list.items[i]
        ELSE <<list.items[i].name, list.items[i].param_types>>]

\* C5: after a parse without a syntax error, every list of the domain stored
\* holds what the text lists, in the order of the text: the requirements, the
\* declarations of the types section and of the pvariables section (the last
\* of its kind), the enum values of a type, the parameters of a pvariable.
C5_ListsInSourceOrder ==
    (ppc = "done" /\ ~SyntaxError /\ "domain" \in KindsOf(src)) =>
        LET b == LastOf(src, "domain")
            D == Blocks["domain"]
        IN  /\ D.requirements = IF b.req.form = "none" THEN None ELSE Strs(b.req.names)
            /\ DOMAIN D.domain_list.map = KindsOf(b.secs)
            /\ \A kind \in KindsOf(b.secs) :
                 HeardDecls(kind, D.domain_list.map[kind]) = SaidDecls(LastOf(b.secs, kind))

\* a section of two declarations, y with a parameter before x, parsed
C5_Witness ==
    /\ Tree
    /\ ~SyntaxError
    /\ Len(Decls) = 2
    /\ Decls[1].name = PyStr("y")
    /\ Decls[1].param_types = Strs(<<<<"t">>>>)
    /\ Decls[2].name = PyStr("x")

\* the section kinds, and the places of the sections of a kind in a domain
SectionKinds == {"types", "pvariables"}
PlacesOf(secs, kind) == {i \in 1..Len(secs) : secs[i].kind = kind}

\* C11: after a parse without a syntax error the section mapping of the domain
\* stored has entries for section kinds only, one for each kind the domain
\* has a section of; the entry of a kind is the declaration list of the last
\* section of that kind and of it alone, as long as that section and no longer,
\* however many sections of that kind come before it and whatever sections of
\* the other kind stand before, between or after them.
C11_LastSectionAlone ==
    (ppc = "done" /\ ~SyntaxError /\ "domain" \in KindsOf(src)) =>
        LET secs == LastOf(src, "domain").secs
            sections == Blocks["domain"].domain_list.map
        IN  /\ DOMAIN sections \subseteq SectionKinds
            /\ \A kind \in SectionKinds :
                 IF PlacesOf(secs, kind) = {} THEN kind \notin DOMAIN sections
                 ELSE LET last == LastOf(secs, kind)
                      IN  /\ kind \in DOMAIN sections
                          /\ sections[kind].k = "list"
                          /\ Len(sections[kind].items) = Len(last.decls)
                          /\ HeardDecls(kind, sections[kind]) = SaidDecls(last)

\* a types section of t, a pvariables section, then a types section of u: the
\* types entry is the declaration of u alone and the pvariables entry is still
\* the one declaration of the section between them
C11_Witness ==
    /\ Tree
    /\ ~SyntaxError
    /\ Len(src) = 1
    /\ src[1].kind = "domain"
    /\ Len(src[1].secs) = 3
    /\ <<src[1].secs[1], src[1].secs[3]>>
         = <<Section("types", <<TypeT>>), Section("types", <<TypeU>>)>>
    /\ src[1].secs[2].kind = "pvariables"
    /\ Blocks["domain"].domain_list.map["types"] = PyList(<<SaidType(TypeU)>>)
    /\ Len(Decls) = 1
    /\ Decls[1].name = Str(src[1].secs[2].decls[1].name)

\* C9: a default that is a boolean literal is stored as the boolean it denotes:
\* True for true, False for false.
C9_BoolDefaultDenoted ==
    (Tree /\ src \in OneDeclInputs /\ Len(Decls) = 1
          /\ TheDecl.def \in {<<Sp["true"]>>, <<Sp["false"]>>}) =>
        Decls[1].def_value = PyBool(TheDecl.def = <<Sp["true"]>>)

(***************************************************************************)
(* What the simulator claims are stated with.                              *)
(***************************************************************************)
\* the shape of an array of three dimensions, <<>> when it is ragged
Shape3(x) ==
    IF /\ \A b \in 1..Len(x) : Len(x[b]) = Len(x[1])
       /\ \A b \in 1..Len(x) : \A t \in 1..Len(x[b]) : Len(x[b][t]) = Len(x[1][1])
    THEN <<Len(x), Len(x[1]), Len(x[1][1])>>
    ELSE <<>>

\* C7: timesteps(H) has the shape [batch, H, 1] and holds H-1-t for every
\* sample at step t of 0..H-1.
C7_TimestepsCountDown ==
    sim.pc = "timesteps" =>
        /\ Shape3(sim.returned) = <<sim.batch, sim.horizon, 1>>
        /\ \A b \in 1..sim.batch : \A t \in 0..(sim.horizon - 1) :
             sim.returned[b][t + 1] = <<sim.horizon - 1 - t>>

\* timesteps of more than one step for more than one sample
C7_Witness ==
    /\ sim.pc = "timesteps"
    /\ sim.horizon >= 2
    /\ sim.batch >= 2
    /\ sim.returned[2][1] = <<sim.horizon - 1>>

\* C8: trajectory(H) has called the cell H times, in the order of time, the
\* first time on the initial state and every next time on the next state of the
\* time before; the final state is the next state of the last call; states,
\* actions and rewards hold, per fluent, H entries per sample, those the calls
\* returned, in their order.
C8_TrajectoryThreadsState ==
    sim.pc = "returned" =>
        LET H == sim.horizon
            calls == sim.calls
            outputs == sim.outputs
        IN  /\ Len(calls) = H
            /\ calls[1].state = initial_state(sim.defaults, sim.batch)
            /\ \A t \in 1..H : \A b \in 1..sim.batch : calls[t].timestep[b] = <<H - t>>
            /\ \A t \in 1..(H - 1) : calls[t + 1].state = calls[t].next_state
            /\ sim.final_state = calls[H].next_state
            /\ Len(outputs.states) = Len(sim.defaults)
            /\ Len(outputs.actions) = sim.naction
            /\ \A i \in 1..Len(outputs.states) :
                 /\ Shape3(outputs.states[i]) = <<sim.batch, H, 1>>
                 /\ \A b \in 1..sim.batch : \A t \in 1..H :
                      outputs.states[i][b][t] = calls[t].next_state[i][b]
            /\ \A j \in 1..Len(outputs.actions) :
                 /\ Shape3(outputs.actions[j]) = <<sim.batch, H, 1>>
                 /\ \A b \in 1..sim.batch : \A t \in 1..H :
                      outputs.actions[j][b][t] = calls[t].output.action[j][b]
            /\ Shape3(outputs.rewards) = <<sim.batch, H, 1>>
            /\ \A b \in 1..sim.batch : \A t \in 1..H :
                 outputs.rewards[b][t] = calls[t].output.reward[b]

\* a trajectory of more than one step whose state changed on the way
C8_Witness ==
    /\ sim.pc = "returned"
    /\ sim.horizon >= 2
    /\ sim.calls[2].state # sim.calls[1].state
    /\ sim.final_state # sim.calls[2].state
====
